---- MODULE Spec2Model ----
(***************************************************************************)
(* Model of webscraper/webscraper.py: one run of scrape_police_news(),     *)
(* including every geocode_location() call it makes, and the __main__      *)
(* block that prints the result.                                           *)
(*                                                                         *)
(* Python strings are sequences of one-character (or one-token) strings,   *)
(* so that startswith, concatenation, strip, strptime and float are        *)
(* computed and not assumed.  Python exceptions are explicit results.      *)
(***************************************************************************)
EXTENDS Integers, Sequences, FiniteSets, TLC

\* ------------------------------------------------------------------ bounds
MaxFragments == 11     \* longest listing page (one more than the cap)
MaxParas     == 2      \* most <p> elements in a fully enumerated fragment
MaxMixed     == 3      \* longest page built freely from defective fragments
MaxResolved  == 1      \* most result-bearing geocoding replies in one run

\* ------------------------------------------------------- program constants
MaxItems == 10
BASE_URL   == <<"https://www.presseportal.de">>
TARGET_URL == BASE_URL \o <<"/", "blaulicht", "/", "d", "/", "polizei">>
NOMINATIM  == <<"https://nominatim.openstreetmap.org/search">>

\* ------------------------------------------------------------ python values
PyNone   == [none |-> TRUE,  val |-> 0]
PyNum(v) == [none |-> FALSE, val |-> v]
\* truth value of None / a float
Truthy(x) == ~x.none /\ x.val # 0

\* the outcome of evaluating an expression: a value or a raised exception
Ok(v)       == [exc |-> "none", line |-> 0, val |-> v]
Raise(e, l) == [exc |-> e, line |-> l, val |-> <<>>]
NoError     == [exc |-> "none", line |-> 0]

\* ------------------------------------------------------------------ strings
StartsWith(s, p) == Len(s) >= Len(p) /\ SubSeq(s, 1, Len(p)) = p

\* U+2013, the separator of the date format (one character)
EnDash == "ndash"

IsSpace(c) == c \in {" ", "\n", "\t"}

RECURSIVE LStrip(_)
LStrip(s) == IF s # <<>> /\ IsSpace(Head(s)) THEN LStrip(Tail(s)) ELSE s

RECURSIVE RStrip(_)
RStrip(s) ==
  IF s # <<>> /\ IsSpace(s[Len(s)]) THEN RStrip(SubSeq(s, 1, Len(s) - 1)) ELSE s

\* tag.get_text(strip=True) of an element holding one text node
Strip(s) == RStrip(LStrip(s))

Digits == {"0", "1", "2", "3", "4", "5", "6", "7", "8", "9"}

DigitVal(c) ==
  CASE c = "0" -> 0 [] c = "1" -> 1 [] c = "2" -> 2 [] c = "3" -> 3
    [] c = "4" -> 4 [] c = "5" -> 5 [] c = "6" -> 6 [] c = "7" -> 7
    [] c = "8" -> 8 [] c = "9" -> 9

\* number of leading digits of s, at most max
RECURSIVE DigitRun(_, _)
DigitRun(s, max) ==
  IF max = 0 \/ s = <<>> \/ Head(s) \notin Digits THEN 0
  ELSE 1 + DigitRun(Tail(s), max - 1)

RECURSIVE NumVal(_)
NumVal(s) == IF s = <<>> THEN 0 ELSE NumVal(SubSeq(s, 1, Len(s) - 1)) * 10 + DigitVal(s[Len(s)])

Drop(s, n) == SubSeq(s, n + 1, Len(s))

\* --------------------------------------------------------------- datetime
IsLeap(y) == (y % 4 = 0 /\ y % 100 # 0) \/ y % 400 = 0

DaysIn(m, y) ==
  IF m = 2 THEN (IF IsLeap(y) THEN 29 ELSE 28)
  ELSE IF m \in {4, 6, 9, 11} THEN 30 ELSE 31

\* datetime.strptime(text, "%d.%m.%Y {en dash} %H:%M"): %d, %m, %H, %M take one
\* or two digits, %Y exactly four, a blank of the format takes one or more
\* blanks of the text, every other character of the format takes itself,
\* and text left over is an error
Strptime(text) ==
  LET nd == DigitRun(text, 2)
      s1 == Drop(text, nd)
      nm == DigitRun(Drop(s1, 1), 2)
      s2 == Drop(Drop(s1, 1), nm)
      ny == DigitRun(Drop(s2, 1), 4)
      s3 == Drop(Drop(s2, 1), ny)
      s4 == LStrip(s3)
      s5 == LStrip(Drop(s4, 1))
      nh == DigitRun(s5, 2)
      s6 == Drop(s5, nh)
      nn == DigitRun(Drop(s6, 1), 2)
      s7 == Drop(Drop(s6, 1), nn)
      d  == NumVal(SubSeq(text, 1, nd))
      m  == NumVal(SubSeq(Drop(s1, 1), 1, nm))
      y  == NumVal(SubSeq(Drop(s2, 1), 1, ny))
      h  == NumVal(SubSeq(s5, 1, nh))
      n  == NumVal(SubSeq(Drop(s6, 1), 1, nn))
      matches ==
        /\ nd > 0 /\ StartsWith(s1, <<".">>)
        /\ nm > 0 /\ StartsWith(s2, <<".">>)
        /\ ny = 4
        /\ s3 # <<>> /\ IsSpace(Head(s3))
        /\ StartsWith(s4, <<EnDash>>)
        /\ Drop(s4, 1) # <<>> /\ IsSpace(Head(Drop(s4, 1)))
        /\ nh > 0 /\ StartsWith(s6, <<":">>)
        /\ nn > 0 /\ s7 = <<>>
        /\ y >= 1 /\ m \in 1..12 /\ d \in 1..DaysIn(m, y)
        /\ h \in 0..23 /\ n \in 0..59
  IN  IF matches
      THEN Ok([year |-> y, month |-> m, day |-> d, hour |-> h, minute |-> n, second |-> 0])
      ELSE Raise("ValueError", 62)

DigitChar(n) ==
  CASE n = 0 -> "0" [] n = 1 -> "1" [] n = 2 -> "2" [] n = 3 -> "3"
    [] n = 4 -> "4" [] n = 5 -> "5" [] n = 6 -> "6" [] n = 7 -> "7"
    [] n = 8 -> "8" [] n = 9 -> "9"

Pad2(n) == <<DigitChar(n \div 10), DigitChar(n % 10)>>
Pad4(n) == Pad2(n \div 100) \o Pad2(n % 100)

\* datetime.isoformat() of a datetime without microseconds
IsoFormat(dt) ==
  Pad4(dt.year) \o <<"-">> \o Pad2(dt.month) \o <<"-">> \o Pad2(dt.day) \o <<"T">>
    \o Pad2(dt.hour) \o <<":">> \o Pad2(dt.minute) \o <<":">> \o Pad2(dt.second)

\* datetime.utcnow(): the wall clock of the run (microseconds left out)
UtcNow == [year |-> 2026, month |-> 11, day |-> 2, hour |-> 18, minute |-> 54, second |-> 7]

\* lines 61-65: the parsed date, or the fallback when strptime raises
IsoDate(text) ==
  LET r == Strptime(text)
  IN  IF r.exc = "none" THEN IsoFormat(r.val) ELSE IsoFormat(UtcNow)

\* ------------------------------------------------------------------- float
\* float(text), in tenths of a degree.  Texts are decimal numerals with at
\* most one fraction digit; anything else is a ValueError.
Float(text) ==
  LET s    == Strip(text)
      neg  == StartsWith(s, <<"-">>)
      u    == IF neg \/ StartsWith(s, <<"+">>) THEN Drop(s, 1) ELSE s
      ni   == DigitRun(u, Len(u))
      rest == Drop(u, ni)
      int  == NumVal(SubSeq(u, 1, ni))
      sgn  == IF neg THEN -1 ELSE 1
  IN  IF ni = 0 THEN Raise("ValueError", 27)
      ELSE IF rest = <<>> THEN Ok(sgn * int * 10)
      ELSE IF Len(rest) = 2 /\ rest[1] = "." /\ rest[2] \in Digits
           THEN Ok(sgn * (int * 10 + DigitVal(rest[2])))
      ELSE Raise("ValueError", 27)

\* ---------------------------------------------------------------- the page
\* an element of the parse tree that select_one found (or did not find)
Elem(text) == [present |-> TRUE, text |-> text]
NoElem     == [present |-> FALSE, text |-> <<>>]

ValidDate == <<"0","5",".","0","3",".","2","0","2","4"," ",EnDash," ","1","4",":","3","0">>

DateTexts ==
  { ValidDate \o <<" ">>,
    <<"0","5",".","0","3",".","2","0","2","4"," ","-"," ","1","4",":","3","0">>,
    <<"3","1",".","0","2",".","2","0","2","4"," ",EnDash," ","1","4",":","3","0">>,
    <<>> }

DateElems  == {NoElem} \cup {Elem(t) : t \in DateTexts}
TopicElems == {NoElem, Elem(<<>>), Elem(<<" ">>), Elem(<<"Berlin">>)}

Hrefs ==
  { <<"/", "blaulicht/pm/1/2">>,
    <<"blaulicht/pm/1/2">>,
    BASE_URL \o <<"/", "blaulicht/pm/1/2">> }

\* the text of the headline anchor of the i-th article of the page
HeadlineText(i) == <<"Meldung", " ", ToString(i)>>

NoAnchor(i)     == [present |-> FALSE, hasHref |-> FALSE, text |-> <<>>, href |-> <<>>]
BareAnchor(i)   == [present |-> TRUE, hasHref |-> FALSE, text |-> HeadlineText(i), href |-> <<>>]
Anchor(i, href) == [present |-> TRUE, hasHref |-> TRUE, text |-> HeadlineText(i), href |-> href]

AnchorElems(i) == {NoAnchor(i), BareAnchor(i)} \cup {Anchor(i, h) : h \in Hrefs}

\* the <p> elements of an article in document order; a byline paragraph
\* (p.customer) holds the agency anchor
Para(customer, j) ==
  [customer |-> customer,
   text |-> IF customer THEN <<"Polizei Berlin">> ELSE <<"Absatz", " ", ToString(j)>>]

ParaSeqs ==
  UNION {{[j \in 1..n |-> Para(k[j], j)] : k \in [1..n -> BOOLEAN]} : n \in 0..MaxParas}

\* every article.news element the model enumerates in full, as the i-th
Fragments(i) ==
  [date : DateElems, topic : TopicElems, anchor : AnchorElems(i), paras : ParaSeqs]

\* a well-formed article and its four single defects
Kinds == {"plain", "nodate", "notopic", "noanchor", "nohref"}

Make(kind, i) ==
  [date   |-> IF kind = "nodate" THEN NoElem ELSE Elem(ValidDate),
   topic  |-> IF kind = "notopic" THEN NoElem ELSE Elem(<<"Berlin">>),
   anchor |-> IF kind = "noanchor" THEN NoAnchor(i)
              ELSE IF kind = "nohref" THEN BareAnchor(i)
              ELSE Anchor(i, <<"/", "blaulicht/pm/1/2">>),
   paras  |-> <<Para(TRUE, 1), Para(FALSE, 2)>>]

\* one article of any shape
FullPages == {<<f>> : f \in Fragments(1)}

\* short pages of any mix of well-formed and defective articles
MixedPages ==
  UNION {{[i \in 1..n |-> Make(k[i], i)] : k \in [1..n -> Kinds]} : n \in 0..MaxMixed}

\* long pages: well-formed articles, at most one of them defective
LongPages ==
  UNION {{[i \in 1..n |-> Make(IF i = pk[1] THEN pk[2] ELSE "plain", i)]
            : pk \in (0..n) \X Kinds} : n \in 0..MaxFragments}

Pages == FullPages \cup MixedPages \cup LongPages

\* ------------------------------------------------- lines 44-65: extraction
\* tag.get_text(strip=True); tag is None when select_one found nothing
GetText(elem, line) ==
  IF ~elem.present THEN Raise("AttributeError", line) ELSE Ok(Strip(elem.text))

\* lines 45-46
Location(article) ==
  IF article.topic.present THEN Strip(article.topic.text) ELSE <<>>

\* lines 51-52
Link(href) == IF StartsWith(href, <<"/">>) THEN BASE_URL \o href ELSE href

\* lines 48-52 with the guard the optional elements have (lines 46, 55)
HeadlineAndLinkGuarded(article) ==
  LET tag == article.anchor
  IN  IF ~tag.present THEN Ok([headline |-> <<>>, link |-> <<>>])
      ELSE IF ~tag.hasHref THEN Raise("KeyError", 50)
      ELSE Ok([headline |-> Strip(tag.text), link |-> Link(tag.href)])

\* lines 48-52
HeadlineAndLink(article) ==
  LET tag == article.anchor
      h   == GetText(tag, 49)
  IN  IF h.exc # "none" THEN h
      ELSE IF ~tag.hasHref THEN Raise("KeyError", 50)
      ELSE Ok([headline |-> h.val, link |-> Link(tag.href)])

\* lines 54-55: the anchor of the first p.customer
RECURSIVE Agency(_)
Agency(paragraphs) ==
  IF paragraphs = <<>> THEN <<>>
  ELSE IF Head(paragraphs).customer THEN Strip(Head(paragraphs).text)
  ELSE Agency(Tail(paragraphs))

\* lines 57-58 taking the first paragraph
SummaryFirst(paragraphs) ==
  IF Len(paragraphs) > 1 THEN Strip(paragraphs[1].text) ELSE <<>>

\* lines 57-58
Summary(paragraphs) ==
  IF Len(paragraphs) > 1 THEN Strip(paragraphs[2].text) ELSE <<>>

\* lines 44-65 in program order: the first exception ends the extraction
Extract(article) ==
  LET d  == GetText(article.date, 44)
      hl == HeadlineAndLink(article)
  IN  IF d.exc # "none" THEN d
      ELSE IF hl.exc # "none" THEN hl
      ELSE Ok([date     |-> IsoDate(d.val),
               location |-> Location(article),
               agency   |-> Agency(article.paras),
               headline |-> hl.val.headline,
               link     |-> hl.val.link,
               summary  |-> Summary(article.paras)])

\* ------------------------------------------- lines 12-30: geocode_location
LatTexts == {<<"5","2",".","5">>, <<"0",".","0">>, <<"n","/","a">>}
LonTexts == {<<"1","3",".","4">>, <<"0",".","0">>, <<"n","/","a">>}

NoReply == [kind |-> "none", lat |-> <<>>, lon |-> <<>>]

\* what the geocoding service can answer to one GET
GeoReplies ==
  {[kind |-> k, lat |-> <<>>, lon |-> <<>>]
     : k \in {"ConnectionError", "Timeout", "http_error", "not_json", "object", "empty", "nokey"}}
  \cup [kind : {"results"}, lat : LatTexts, lon : LonTexts]

\* line 14 without the early return
NotLocationNever(location) == FALSE

\* line 14: not location
NotLocation(location) == location = <<>>

\* lines 14-23 with the GET repeated once
GeocodeRequestsRetry(location) ==
  IF NotLocation(location) THEN <<>>
  ELSE <<[url |-> NOMINATIM, q |-> location \o <<",", " ", "Germany">>],
         [url |-> NOMINATIM, q |-> location \o <<",", " ", "Germany">>]>>

\* lines 14-23: the requests the call issues
GeocodeRequests(location) ==
  IF NotLocation(location) THEN <<>>
  ELSE <<[url |-> NOMINATIM, q |-> location \o <<",", " ", "Germany">>]>>

\* lines 18-27: the body of the try block on one reply
GeocodeTry(r) ==
  CASE r.kind \in {"ConnectionError", "Timeout"} -> Raise(r.kind, 18)
    [] r.kind = "http_error" -> Raise("HTTPError", 24)
    [] r.kind = "not_json"   -> Raise("JSONDecodeError", 25)
    [] r.kind = "empty"      -> Ok(<<PyNone, PyNone>>)
    [] r.kind \in {"object", "nokey"} -> Raise("KeyError", 27)
    [] r.kind = "results" ->
         LET a == Float(r.lat)
             b == Float(r.lon)
         IN  IF a.exc # "none" THEN a
             ELSE IF b.exc # "none" THEN b
             ELSE Ok(<<PyNum(a.val), PyNum(b.val)>>)

\* line 28 catching the exceptions of requests only
CaughtRequestErrors(exc) == exc \in {"ConnectionError", "Timeout", "HTTPError"}

\* line 28: except Exception
Caught(exc) ==
  exc \in {"ConnectionError", "Timeout", "HTTPError", "JSONDecodeError",
           "KeyError", "ValueError", "AttributeError", "TypeError"}

\* lines 12-30
geocode_location(location, r) ==
  IF NotLocation(location) THEN Ok(<<PyNone, PyNone>>)
  ELSE LET t == GeocodeTry(r)
       IN  IF t.exc = "none" THEN t
           ELSE IF Caught(t.exc) THEN Ok(<<PyNone, PyNone>>)
           ELSE t

\* line 77 with "or" for "and"
CoordinatesEither(lat, lng) ==
  IF Truthy(lat) \/ Truthy(lng)
  THEN [none |-> FALSE, lat |-> lat.val, lng |-> lng.val]
  ELSE [none |-> TRUE, lat |-> 0, lng |-> 0]

\* line 77
Coordinates(lat, lng) ==
  IF Truthy(lat) /\ Truthy(lng)
  THEN [none |-> FALSE, lat |-> lat.val, lng |-> lng.val]
  ELSE [none |-> TRUE, lat |-> 0, lng |-> 0]

\* lines 70-78
Record(c, lat, lng) ==
  [date |-> c.date, location |-> c.location, agency |-> c.agency,
   headline |-> c.headline, link |-> c.link, summary |-> c.summary,
   coordinates |-> Coordinates(lat, lng)]

\* --------------------------------------------------- lines 35-36: the fetch
\* what the listing server can answer; only a success carries the page
FetchReplies(doc) ==
  {[kind |-> k, status |-> 0, body |-> <<>>] : k \in {"ConnectionError", "Timeout"}}
  \cup {[kind |-> "response", status |-> 200, body |-> doc]}
  \cup {[kind |-> "response", status |-> st, body |-> <<>>] : st \in {404, 503}}

\* line 36 left out
RaiseForStatusNever(status) == FALSE

\* line 36: response.raise_for_status()
RaiseForStatus(status) == status >= 400 /\ status < 600

\* line 41: soup.select("article.news"), in document order
SelectArticles(body) == body

\* lines 41-43 breaking one round early
LoopContinuesShort(i, n) == i <= n /\ ~(i >= MaxItems)

\* lines 41-43: the loop goes on (enumerate from 1, break past the cap)
LoopContinues(i, n) == i <= n /\ ~(i > MaxItems)

\* line 85: the document json.dumps makes of the returned list
Document(list) == [array |-> list]

\* -------------------------------------------------------------- the state
VARIABLES
  page,       \* the listing page the server holds: its article.news elements
  pc,         \* position of the run
  response,   \* the outcome of the listing GET (line 35)
  articles,   \* the selected elements (line 41)
  idx,        \* the loop counter (line 41)
  cur,        \* the fields extracted from the current article (lines 44-65)
  reply,      \* the geocoding reply the latest lookup received, until the loop moves on
  geo,        \* lat, lng (line 67)
  incidents,  \* line 40
  requests,   \* every GET issued so far, in order
  stdout,     \* the documents printed (line 85)
  error,      \* the exception that ended the run
  resolved    \* result-bearing geocoding replies so far

vars == <<page, pc, response, articles, idx, cur, reply, geo, incidents, requests, stdout, error, resolved>>

NoFields ==
  [date |-> <<>>, location |-> <<>>, agency |-> <<>>, headline |-> <<>>,
   link |-> <<>>, summary |-> <<>>]

NoResponse == [kind |-> "none", status |-> 0]

ListingRequest == [url |-> TARGET_URL, q |-> <<>>, at |-> 0]

Init ==
  /\ page \in Pages
  /\ pc = "start"
  /\ response = NoResponse
  /\ articles = <<>>
  /\ idx = 0
  /\ cur = NoFields
  /\ reply = NoReply
  /\ geo = <<PyNone, PyNone>>
  /\ incidents = <<>>
  /\ requests = <<>>
  /\ stdout = <<>>
  /\ error = NoError
  /\ resolved = 0

\* lines 35-41: the listing GET, raise_for_status, parse, select
Fetch ==
  /\ pc = "start"
  /\ \E r \in FetchReplies(page) :
       /\ requests' = Append(requests, ListingRequest)
       /\ response' = [kind |-> r.kind, status |-> r.status]
       /\ IF r.kind # "response"
          THEN /\ error' = [exc |-> r.kind, line |-> 35]
               /\ pc' = "failed"
               /\ UNCHANGED <<articles, idx>>
          ELSE IF RaiseForStatus(r.status)
          THEN /\ error' = [exc |-> "HTTPError", line |-> 36]
               /\ pc' = "failed"
               /\ UNCHANGED <<articles, idx>>
          ELSE /\ articles' = SelectArticles(r.body)
               /\ idx' = 1
               /\ pc' = "loop"
               /\ UNCHANGED error
  /\ UNCHANGED <<page, cur, reply, geo, incidents, stdout, resolved>>

\* lines 44-65: the fields of article idx, or the exception that ends the run
ExtractFields ==
  /\ pc = "loop"
  /\ LoopContinues(idx, Len(articles))
  /\ LET e == Extract(articles[idx])
     IN  IF e.exc # "none"
         THEN /\ error' = [exc |-> e.exc, line |-> e.line]
              /\ pc' = "failed"
              /\ UNCHANGED cur
         ELSE /\ cur' = e.val
              /\ pc' = "geocode"
              /\ UNCHANGED error
  /\ reply' = NoReply
  /\ UNCHANGED <<page, response, articles, idx, geo, incidents, requests, stdout, resolved>>

\* line 67: the call of geocode_location with its GET and the reply to it
Geocode ==
  /\ pc = "geocode"
  /\ \E r \in (IF GeocodeRequests(cur.location) = <<>> THEN {NoReply} ELSE GeoReplies) :
       /\ r.kind = "results" => resolved < MaxResolved
       /\ resolved' = IF r.kind = "results" THEN resolved + 1 ELSE resolved
       /\ reply' = r
       /\ requests' = requests \o
            [j \in 1..Len(GeocodeRequests(cur.location)) |->
               [url |-> GeocodeRequests(cur.location)[j].url,
                q   |-> GeocodeRequests(cur.location)[j].q,
                at  |-> idx]]
       /\ LET g == geocode_location(cur.location, r)
          IN  IF g.exc # "none"
              THEN /\ error' = [exc |-> g.exc, line |-> g.line]
                   /\ pc' = "failed"
                   /\ UNCHANGED geo
              ELSE /\ geo' = g.val
                   /\ pc' = "append"
                   /\ UNCHANGED error
  /\ UNCHANGED <<page, response, articles, idx, cur, incidents, stdout>>

\* lines 69-79 and the next round of line 41
AppendIncident ==
  /\ pc = "append"
  /\ incidents' = Append(incidents, Record(cur, geo[1], geo[2]))
  /\ idx' = idx + 1
  /\ pc' = "loop"
  /\ UNCHANGED <<page, response, articles, cur, reply, geo, requests, stdout, error, resolved>>

\* lines 41-43 and 81: the loop is over, the list is returned
Return ==
  /\ pc = "loop"
  /\ ~LoopContinues(idx, Len(articles))
  /\ pc' = "returned"
  /\ reply' = NoReply
  /\ UNCHANGED <<page, response, articles, idx, cur, geo, incidents, requests, stdout, error, resolved>>

\* line 85: print(json.dumps(...)) of the returned list
PrintJson ==
  /\ pc = "returned"
  /\ stdout' = Append(stdout, Document(incidents))
  /\ pc' = "done"
  /\ UNCHANGED <<page, response, articles, idx, cur, reply, geo, incidents, requests, error, resolved>>

Next == Fetch \/ ExtractFields \/ Geocode \/ AppendIncident \/ Return \/ PrintJson

Spec == Init /\ [][Next]_vars

\* ---------------------------------------------------------------- claims
Min(a, b) == IF a < b THEN a ELSE b

\* the articles a run processes at most: the first MaxItems of the page
Processed == Min(Len(articles), 10)

\* a geocoding reply with at least one result whose lat and lon both parse
Resolvable(r) ==
  r.kind = "results" /\ Float(r.lat).exc = "none" /\ Float(r.lon).exc = "none"

\* the record of the article the loop has just left
JustAppended == pc = "loop" /\ idx > 1 /\ Len(incidents) = idx - 1

GeoRequestIndexes == {j \in 1..Len(requests) : requests[j].url = NOMINATIM}

\* C1: geocode_location never raises.  No exception of lines 12-30 ever ends
\* the run, and after a lookup of a non-empty location that failed in any
\* way (transport error, timeout, failure status, body that is not JSON or
\* not an array, empty array, first result without parseable lat/lon) the
\* call has returned (None, None) and the run goes on to build the record.
C1_GeocodeNeverRaises ==
  /\ error.exc # "none" => error.line \notin 12..30
  /\ (reply.kind # "none" /\ ~Resolvable(reply)) =>
       /\ pc \in {"append", "loop"}
       /\ geo = <<PyNone, PyNone>>

C1_Witness ==
  /\ pc = "append"
  /\ cur.location # <<>>
  /\ reply.kind = "results"
  /\ Float(reply.lat).exc = "ValueError"
  /\ geo = <<PyNone, PyNone>>

\* C2: extraction of the date never fails: no run ends on the date element
\* (line 44), and the date of every record is the parsed source date when
\* the element holds a well-formed string and the current UTC time when the
\* string is malformed or the element is absent.
C2_DateNeverFails ==
  /\ error.line # 44
  /\ \A i \in 1..Len(incidents) :
       LET el == articles[i].date
           r  == Strptime(Strip(el.text))
       IN  incidents[i].date =
             IF el.present /\ r.exc = "none" THEN IsoFormat(r.val) ELSE IsoFormat(UtcNow)

\* C3: every record of a successful run has a link that begins with the
\* site origin, whether the href was relative (with or without a leading
\* slash) or already absolute.
C3_LinkAbsolute ==
  pc \in {"returned", "done"} =>
    \A i \in 1..Len(incidents) : StartsWith(incidents[i].link, BASE_URL)

\* C4: an article whose location is the empty string (topic element absent,
\* empty or blank) gets no geocoding request and absent coordinates.
C4_EmptyLocationNoRequest ==
  /\ \A j \in GeoRequestIndexes :
       LET t == articles[requests[j].at].topic
       IN  t.present /\ Strip(t.text) # <<>>
  /\ \A i \in 1..Len(incidents) :
       incidents[i].location = <<>> => incidents[i].coordinates.none

C4_Witness ==
  /\ JustAppended
  /\ articles[idx - 1].topic.present
  /\ incidents[idx - 1].location = <<>>
  /\ incidents[idx - 1].coordinates.none
  /\ GeoRequestIndexes = {}

\* C5 as stated: whenever the service returned a first result with parseable
\* lat/lon, the record's coordinates are present and equal the resolved
\* pair, a latitude or longitude of 0 included; they are absent only when
\* the lookup was unresolved.
C5_ResolvedAlwaysAttached ==
  JustAppended =>
    LET c == incidents[idx - 1].coordinates
    IN  IF Resolvable(reply)
        THEN c = [none |-> FALSE, lat |-> Float(reply.lat).val, lng |-> Float(reply.lon).val]
        ELSE c.none

\* C5 amended: the coordinates are present, and equal the resolved pair,
\* exactly when the service returned a first result whose lat and lon both
\* parse and both are different from 0; in every other case (unresolved
\* lookup, or a resolved latitude or longitude of 0) they are absent.
C5_NonZeroResolvedAttached ==
  JustAppended =>
    LET c == incidents[idx - 1].coordinates
    IN  IF Resolvable(reply) /\ Float(reply.lat).val # 0 /\ Float(reply.lon).val # 0
        THEN c = [none |-> FALSE, lat |-> Float(reply.lat).val, lng |-> Float(reply.lon).val]
        ELSE c.none

C5_Witness ==
  /\ JustAppended
  /\ Resolvable(reply)
  /\ incidents[idx - 1].coordinates = [none |-> FALSE, lat |-> 525, lng |-> 134]

\* C6: an article among the first MaxItems that lacks the heading anchor
\* aborts the run: the run never gets past that article (no geocoding, no
\* record for it, no later article taken up), it fails there at the latest,
\* the list is never returned or printed; and a run that was fetched fails
\* only at an article within the cap that lacks its date element, its
\* heading anchor or the anchor's href, never because of a later article.
C6_MissingAnchorAborts ==
  /\ \A k \in 1..Processed :
       ~articles[k].anchor.present =>
         /\ idx <= k
         /\ Len(incidents) < k
         /\ pc \notin {"returned", "done"}
         /\ stdout = <<>>
         /\ idx = k => pc \in {"loop", "failed"}
         /\ (idx = k /\ pc = "failed") => error.line \in {44, 49}
         /\ (idx = k /\ pc = "failed" /\ articles[k].date.present) =>
              error = [exc |-> "AttributeError", line |-> 49]
  /\ (pc = "failed" /\ response.kind = "response" /\ response.status = 200) =>
       /\ idx \in 1..Processed
       /\ \/ ~articles[idx].date.present
          \/ ~articles[idx].anchor.present
          \/ ~articles[idx].anchor.hasHref

C6_Witness ==
  /\ pc = "failed"
  /\ idx > 1
  /\ Len(incidents) = idx - 1
  /\ Len(articles) > idx
  /\ ~articles[idx].anchor.present
  /\ error.line = 49

\* the two ways a run ends, and what is printed on the way
RunOutcomes ==
  /\ pc = "done" =>
       /\ error = NoError
       /\ response = [kind |-> "response", status |-> 200]
       /\ stdout = <<[array |-> incidents]>>
       /\ Len(incidents) = Processed
  /\ pc = "failed" =>
       /\ error.exc # "none"
       /\ error.line \in {35, 36, 44, 49, 50}
  /\ pc # "done" => stdout = <<>>
  /\ (response.kind \notin {"none", "response"} \/ response.status >= 400) =>
       /\ pc = "failed"
       /\ error.line \in {35, 36}
       /\ idx = 0
       /\ incidents = <<>>
       /\ requests = <<ListingRequest>>

\* the steps a run can still take, at most
Rank ==
  CASE pc = "start"    -> 3 * (MaxItems + 2) + 3
    [] pc = "loop"     -> 3 * (MaxItems + 2 - idx) + 2
    [] pc = "geocode"  -> 3 * (MaxItems + 2 - idx) + 1
    [] pc = "append"   -> 3 * (MaxItems + 2 - idx)
    [] pc = "returned" -> 1
    [] OTHER           -> 0

\* C7: a run ends (every step lowers the number of steps it can still
\* take), and in one of two ways.  Success: the complete list (one record
\* for each of the first MaxItems articles) is printed as one document.  Failure: nothing is printed, and the cause is the listing
\* fetch or a missing element of an article.  Nothing is printed before the
\* end, and a failed fetch (transport error or failure status) ends the run
\* before any article is processed and before any geocoding request.
C7_RunEnds ==
  /\ []RunOutcomes
  /\ [](Rank >= 0)
  /\ [][Rank' < Rank]_vars

C7_Witness ==
  /\ pc = "done"
  /\ Len(incidents) >= 2
  /\ stdout = <<[array |-> incidents]>>

\* C8: the list holds the document-order prefix of the page: record i is
\* built from the i-th article, and a returned list has exactly
\* min(N, MaxItems) records; articles after the cap are ignored whatever
\* they hold.
C8_DocumentOrderPrefix ==
  /\ Len(incidents) <= Processed
  /\ \A i \in 1..Len(incidents) :
       /\ incidents[i].headline = <<"Meldung", " ", ToString(i)>>
       /\ incidents[i].headline = articles[i].anchor.text
  /\ pc \in {"returned", "done"} => Len(incidents) = Processed

C8_Witness ==
  /\ pc = "done"
  /\ Len(articles) = 11
  /\ ~articles[11].anchor.present
  /\ Len(incidents) = 10
  /\ incidents[10].headline = <<"Meldung", " ", "10">>

\* C9: the summary of a record is the text of the second paragraph of its
\* article when the article has at least two, whatever the first one is
\* (a byline paragraph included), and the empty string otherwise.
C9_SummarySecondParagraph ==
  \A i \in 1..Len(incidents) :
    LET ps == articles[i].paras
    IN  incidents[i].summary = IF Len(ps) >= 2 THEN Strip(ps[2].text) ELSE <<>>

C9_Witness ==
  /\ Len(incidents) = 1
  /\ Len(articles[1].paras) >= 2
  /\ ~articles[1].paras[1].customer
  /\ articles[1].paras[2].customer
  /\ incidents[1].summary = <<"Polizei Berlin">>

\* C10: the requests of a run are one listing GET, first, followed by at
\* most one geocoding GET for each processed article, in document order,
\* each issued when the headline and link of its article are extracted and
\* its location is not empty; so there are at most min(N, MaxItems) of
\* them, and after an abort on a missing heading anchor at article k they
\* belong to articles before k only.
C10_RequestSequence ==
  /\ pc = "start" => requests = <<>>
  /\ pc # "start" => Len(requests) >= 1 /\ requests[1] = ListingRequest
  /\ \A j \in 2..Len(requests) :
       LET i == requests[j].at
       IN  /\ requests[j].url = NOMINATIM
           /\ i \in 1..Processed
           /\ i <= idx
           /\ articles[i].anchor.present /\ articles[i].anchor.hasHref
           /\ Strip(articles[i].topic.text) # <<>>
           /\ requests[j].q = Strip(articles[i].topic.text) \o <<",", " ", "Germany">>
           /\ i = idx => /\ pc = "append"
                         /\ cur.headline = articles[i].anchor.text
           /\ j > 2 => requests[j - 1].at < i
  /\ Len(requests) <= 1 + Processed
  /\ (pc = "failed" /\ error.line \in {44, 49, 50}) =>
       \A j \in 2..Len(requests) : requests[j].at < idx

C10_Witness ==
  /\ pc = "failed"
  /\ error.line = 49
  /\ idx = 3
  /\ Len(requests) = 3
  /\ requests[2].at = 1
  /\ requests[3].at = 2
====
